---- MODULE Spec2Model ----
(***************************************************************************)
(* Model of the payment-instruction processor                              *)
(* (src/services/payment-processor/parse-instruction.js).                  *)
(*                                                                         *)
(* JavaScript strings are sequences of one-character strings, so that      *)
(* split, trim, case conversion, Number() and the character-wise           *)
(* validators are computed as the code computes them.  JavaScript numbers  *)
(* and the values a balance can take are tagged records (see Num, NaN,     *)
(* Str): the code adds a string to a number, so a balance is not always a  *)
(* number.                                                                 *)
(***************************************************************************)
EXTENDS Integers, Sequences, FiniteSets, TLC

(***************************************************************************)
(* Values                                                                  *)
(***************************************************************************)

\* JavaScript null where a string is expected.  Every real string is a
\* sequence of one-character strings, so this value equals no string.
Null == <<"null">>

\* `!v` for v a string or null: null and the empty string are falsy.
Falsy(v) == v = Null \/ v = <<>>

\* A JavaScript number that is an integer.
Num(n) == [t |-> "num", n |-> n, s |-> <<>>]

\* The JavaScript number NaN.
NaN == [t |-> "nan", n |-> 0, s |-> <<>>]

\* A JavaScript string held where a number is expected (a balance after +=).
Str(s) == [t |-> "str", n |-> 0, s |-> s]

\* JavaScript null where a number is expected (response.amount).
NullNum == [t |-> "null", n |-> 0, s |-> <<>>]

(***************************************************************************)
(* String primitives                                                       *)
(***************************************************************************)

LowerChars == <<"a","b","c","d","e","f","g","h","i","j","k","l","m",
                "n","o","p","q","r","s","t","u","v","w","x","y","z">>

UpperChars == <<"A","B","C","D","E","F","G","H","I","J","K","L","M",
                "N","O","P","Q","R","S","T","U","V","W","X","Y","Z">>

DigitChars == <<"0","1","2","3","4","5","6","7","8","9">>

Range(f) == {f[i] : i \in DOMAIN f}

LowerSet == Range(LowerChars)

UpperSet == Range(UpperChars)

DigitSet == Range(DigitChars)

\* String.prototype.toLowerCase
toLowerCase(s) ==
  [i \in 1..Len(s) |->
     IF s[i] \in UpperSet
       THEN LowerChars[CHOOSE k \in 1..26 : UpperChars[k] = s[i]]
       ELSE s[i]]

\* String.prototype.toUpperCase
toUpperCase(s) ==
  [i \in 1..Len(s) |->
     IF s[i] \in LowerSet
       THEN UpperChars[CHOOSE k \in 1..26 : LowerChars[k] = s[i]]
       ELSE s[i]]

\* The white space String.prototype.trim removes (those the inputs use).
WhiteSpace == {" ", "\t", "\n", "\r"}

\* String.prototype.trim
trim(s) ==
  LET keep == {i \in 1..Len(s) : s[i] \notin WhiteSpace}
  IN  IF keep = {} THEN <<>>
      ELSE LET lo == CHOOSE i \in keep : \A j \in keep : i <= j
               hi == CHOOSE i \in keep : \A j \in keep : j <= i
           IN  SubSeq(s, lo, hi)

\* String.prototype.includes for a one-character needle
includes(s, c) == \E i \in 1..Len(s) : s[i] = c

\* String.prototype.split(' '): the segments between single spaces, empty
\* segments included.
RECURSIVE split(_)
split(s) ==
  IF ~includes(s, " ") THEN <<s>>
  ELSE LET i == CHOOSE k \in 1..Len(s) :
                  s[k] = " " /\ \A j \in 1..(k - 1) : s[j] # " "
       IN  <<SubSeq(s, 1, i - 1)>> \o split(SubSeq(s, i + 1, Len(s)))

\* The value of a digit character.
DigitVal(c) == (CHOOSE k \in 1..10 : DigitChars[k] = c) - 1

\* The value of a sequence of decimal digits.
RECURSIVE DigitsVal(_)
DigitsVal(s) ==
  IF s = <<>> THEN 0
  ELSE 10 * DigitsVal(SubSeq(s, 1, Len(s) - 1)) + DigitVal(s[Len(s)])

AllDigits(s) == \A i \in 1..Len(s) : s[i] \in DigitSet

\* Number(s) for a string s (ToNumber): white space is trimmed, the empty
\* string is 0, an optionally signed run of decimal digits is its value, and
\* any other string over the characters the inputs use is NaN.  (The other
\* numeric literals of JavaScript - a decimal point, an exponent, 0x/0o/0b,
\* Infinity - are not built by the inputs: no token holds "e", "x", "o", "I",
\* and a token with "." never reaches Number.)
Number(s) ==
  LET u == trim(s)
  IN  IF u = <<>> THEN Num(0)
      ELSE IF AllDigits(u) THEN Num(DigitsVal(u))
      ELSE IF u[1] = "-" /\ Len(u) > 1 /\ AllDigits(Tail(u))
        THEN Num(0 - DigitsVal(Tail(u)))
      ELSE IF u[1] = "+" /\ Len(u) > 1 /\ AllDigits(Tail(u))
        THEN Num(DigitsVal(Tail(u)))
      ELSE NaN

\* The decimal digits of a natural number.
RECURSIVE NatToStr(_)
NatToStr(n) ==
  IF n < 10 THEN <<DigitChars[n + 1]>>
  ELSE NatToStr(n \div 10) \o <<DigitChars[(n % 10) + 1]>>

\* ToNumber of a number or a string.
ToNumber(v) == IF v.t = "str" THEN Number(v.s) ELSE v

\* ToString of a number or a string.
JSToString(v) ==
  CASE v.t = "str" -> v.s
    [] v.t = "nan" -> <<"N","a","N">>
    [] v.t = "num" -> IF v.n < 0 THEN <<"-">> \o NatToStr(0 - v.n)
                                 ELSE NatToStr(v.n)

\* a - b: both operands go through ToNumber.
Minus(a, b) ==
  LET x == ToNumber(a)
      y == ToNumber(b)
  IN  IF x.t = "nan" \/ y.t = "nan" THEN NaN ELSE Num(x.n - y.n)

\* a + b: string concatenation as soon as one operand is a string.
Plus(a, b) ==
  IF a.t = "str" \/ b.t = "str" THEN Str(JSToString(a) \o JSToString(b))
  ELSE IF a.t = "nan" \/ b.t = "nan" THEN NaN
  ELSE Num(a.n + b.n)

\* a < b for b a number: a goes through ToNumber; false when either is NaN.
LessThan(a, b) ==
  LET x == ToNumber(a)
  IN  x.t = "num" /\ b.t = "num" /\ x.n < b.n

\* a <= 0 for a number a (false for NaN).
LessEqZero(a) == a.t = "num" /\ a.n <= 0

(***************************************************************************)
(* Tables of the module                                                    *)
(***************************************************************************)

\* The property names every object literal inherits from Object.prototype:
\* `key in obj` is true of them as of the object's own keys.
ObjectPrototypeKeys ==
  { <<"c","o","n","s","t","r","u","c","t","o","r">>,
    <<"_","_","p","r","o","t","o","_","_">>,
    <<"t","o","S","t","r","i","n","g">>,
    <<"v","a","l","u","e","O","f">>,
    <<"h","a","s","O","w","n","P","r","o","p","e","r","t","y">>,
    <<"i","s","P","r","o","t","o","t","y","p","e","O","f">>,
    <<"t","o","L","o","c","a","l","e","S","t","r","i","n","g">>,
    <<"p","r","o","p","e","r","t","y","I","s","E","n","u","m","e","r","a","b","l","e">> }

\* key in obj, for an object literal with the given own keys.
In(key, ownKeys) == key \in ownKeys \/ key \in ObjectPrototypeKeys

credit == <<"c","r","e","d","i","t">>

debit == <<"d","e","b","i","t">>

\* SUPPORTED_TYPE: own key |-> value
SUPPORTED_TYPE ==
  (credit :> <<"C","R","E","D","I","T">>) @@ (debit :> <<"D","E","B","I","T">>)

\* SUPPORTED_CURRENCIES: own key |-> value
SUPPORTED_CURRENCIES ==
  (<<"u","s","d">> :> <<"U","S","D">>) @@ (<<"n","g","n">> :> <<"N","G","N">>) @@
  (<<"g","b","p">> :> <<"G","B","P">>) @@ (<<"g","h","s">> :> <<"G","H","S">>)

\* PARSER_CONFIG[type].fields: field |-> 0-based token index
PARSER_CONFIG ==
  (credit :> [type |-> 0, amount |-> 1, currency |-> 2,
              credit_account |-> 5, debit_account |-> 10, execute_by |-> 12]) @@
  (debit  :> [type |-> 0, amount |-> 1, currency |-> 2,
              debit_account |-> 5, credit_account |-> 10, execute_by |-> 12])

(***************************************************************************)
(* Field validators                                                        *)
(***************************************************************************)

\* The characters of `allowed`.
AllowedChars ==
  LowerSet \cup UpperSet \cup DigitSet \cup {"-", ".", "@"}

isValidAccountId(id) ==
  IF Falsy(id) THEN FALSE
  ELSE \A i \in 1..Len(id) : id[i] \in AllowedChars

\* daysInMonth
daysInMonth == <<31, 28, 31, 30, 31, 30, 31, 31, 30, 31, 30, 31>>

\* isValidDateYYYYMMDD with the leap-year rule cut down to "divisible by 4".
isValidDateYYYYMMDD_LeapEveryFourth(dateStr) ==
  IF Falsy(dateStr) THEN FALSE
  ELSE IF Len(dateStr) # 10 THEN FALSE
  ELSE IF dateStr[5] # "-" \/ dateStr[8] # "-" THEN FALSE
  ELSE
    LET yearStr  == SubSeq(dateStr, 1, 4)
        monthStr == SubSeq(dateStr, 6, 7)
        dayStr   == SubSeq(dateStr, 9, 10)
        combined == yearStr \o monthStr \o dayStr
    IN  IF \E i \in 1..Len(combined) : combined[i] \notin DigitSet
          THEN FALSE
        ELSE
          LET year   == Number(yearStr).n
              month  == Number(monthStr).n
              day    == Number(dayStr).n
              isLeap == year % 4 = 0
          IN  IF year < 1000 \/ year > 9999 THEN FALSE
              ELSE IF month < 1 \/ month > 12 THEN FALSE
              ELSE IF isLeap /\ month = 2
                THEN ~(day < 1 \/ day > 29)
              ELSE ~(day < 1 \/ day > daysInMonth[month])

isValidDateYYYYMMDD(dateStr) ==
  IF Falsy(dateStr) THEN FALSE
  ELSE IF Len(dateStr) # 10 THEN FALSE
  ELSE IF dateStr[5] # "-" \/ dateStr[8] # "-" THEN FALSE
  ELSE
    LET yearStr  == SubSeq(dateStr, 1, 4)
        monthStr == SubSeq(dateStr, 6, 7)
        dayStr   == SubSeq(dateStr, 9, 10)
        combined == yearStr \o monthStr \o dayStr
    IN  IF \E i \in 1..Len(combined) : combined[i] \notin DigitSet
          THEN FALSE
        ELSE
          LET year   == Number(yearStr).n
              month  == Number(monthStr).n
              day    == Number(dayStr).n
              isLeap == (year % 4 = 0 /\ year % 100 # 0) \/ year % 400 = 0
          IN  IF year < 1000 \/ year > 9999 THEN FALSE
              ELSE IF month < 1 \/ month > 12 THEN FALSE
              ELSE IF isLeap /\ month = 2
                THEN ~(day < 1 \/ day > 29)
              ELSE ~(day < 1 \/ day > daysInMonth[month])

(***************************************************************************)
(* Tokenizer and field mapper                                              *)
(***************************************************************************)

\* instruction.split(' ').map((w) => w.trim()).filter(Boolean)
Words(instruction) ==
  LET raw     == split(instruction)
      trimmed == [i \in 1..Len(raw) |-> trim(raw[i])]
  IN  SelectSeq(trimmed, LAMBDA w : w # <<>>)

\* words[index] ?? null
WordAt(words, index) == IF index + 1 <= Len(words) THEN words[index + 1] ELSE Null

\* words[0]?.toLowerCase(), null standing for undefined
First(instruction) ==
  LET words == Words(instruction)
  IN  IF Len(words) = 0 THEN Null ELSE toLowerCase(words[1])

\* The call throws a TypeError: `first in SUPPORTED_TYPE` holds of a property
\* inherited from Object.prototype, PARSER_CONFIG[first] is then an inherited
\* value without `fields`, and Object.entries(undefined) throws.
parseInstructionDataThrows(instruction) ==
  LET first == First(instruction)
  IN  /\ ~Falsy(first)
      /\ In(first, DOMAIN SUPPORTED_TYPE)
      /\ first \notin DOMAIN PARSER_CONFIG

NullInfo ==
  [type |-> Null, amount |-> Null, currency |-> Null,
   debit_account |-> Null, credit_account |-> Null, execute_by |-> Null]

parseInstructionData(instruction) ==
  LET words == Words(instruction)
      first == First(instruction)
  IN  IF ~Falsy(first) /\ In(first, DOMAIN SUPPORTED_TYPE) /\ first \in DOMAIN PARSER_CONFIG
        THEN LET fields == PARSER_CONFIG[first]
                 cur    == WordAt(words, fields.currency)
             IN  [type           |-> WordAt(words, fields.type),
                  amount         |-> WordAt(words, fields.amount),
                  currency       |-> IF ~Falsy(cur) THEN toUpperCase(cur) ELSE cur,
                  debit_account  |-> WordAt(words, fields.debit_account),
                  credit_account |-> WordAt(words, fields.credit_account),
                  execute_by     |-> WordAt(words, fields.execute_by)]
        ELSE NullInfo

(***************************************************************************)
(* Validation chain                                                        *)
(***************************************************************************)

\* accountsMap.get(id) after accounts.forEach((a) => accountsMap.set(a.id, a)):
\* the position of the last account with that id, 0 standing for undefined.
accountsMapGet(accts, id) ==
  LET hits == {i \in 1..Len(accts) : accts[i].id = id}
  IN  IF hits = {} THEN 0 ELSE CHOOSE i \in hits : \A j \in hits : j <= i

\* The return value null of validateParsedFields.
NoError == [code |-> "none", message |-> "none"]

validateParsedFields(parsed, accts) ==
  IF parsed.type = Null
    THEN [code |-> "PR01", message |-> "MALFORMED_INSTRUCTION"]
  \* Number.isNaN of a string is false: only a missing amount fails here
  ELSE IF Falsy(parsed.amount)
    THEN [code |-> "AM01", message |-> "INVALID_AMOUNT"]
  ELSE IF includes(parsed.amount, ".")
    THEN [code |-> "AM01", message |-> "INVALID_AMOUNT"]
  ELSE IF LessEqZero(Number(parsed.amount))
    THEN [code |-> "AM01", message |-> "INVALID_AMOUNT"]
  ELSE IF Falsy(parsed.currency)
          \/ ~In(toLowerCase(parsed.currency), DOMAIN SUPPORTED_CURRENCIES)
    THEN [code |-> "CU02", message |-> "UNSUPPORTED_CURRENCY"]
  ELSE IF ~isValidAccountId(parsed.debit_account)
          /\ ~isValidAccountId(parsed.credit_account)
    THEN [code |-> "AC04", message |-> "INVALID_ACCOUNT_ID"]
  ELSE
    LET amount == Number(parsed.amount)
        d      == accountsMapGet(accts, parsed.debit_account)
        c      == accountsMapGet(accts, parsed.credit_account)
    IN  IF d = 0 \/ c = 0
          THEN [code |-> "AC03", message |-> "ACCOUNT_NOT_FOUND"]
        ELSE IF parsed.debit_account = parsed.credit_account
          THEN [code |-> "AC02", message |-> "SAME_ACCOUNT_ERROR"]
        ELSE IF toUpperCase(accts[d].currency) # toUpperCase(accts[c].currency)
          THEN [code |-> "CU01", message |-> "CURRENCY_MISMATCH"]
        ELSE IF toLowerCase(parsed.type) # credit /\ toLowerCase(parsed.type) # debit
          THEN [code |-> "SY03", message |-> "MISSING_KEYWORD"]
        ELSE IF parsed.type = SUPPORTED_TYPE[debit] /\ LessThan(accts[d].balance, amount)
          THEN [code |-> "AC01", message |-> "INSUFFICIENT_FUNDS"]
        ELSE IF ~Falsy(parsed.execute_by) /\ ~isValidDateYYYYMMDD(parsed.execute_by)
          THEN [code |-> "DT01", message |-> "INVALID_DATE_FORMAT"]
        ELSE NoError

(***************************************************************************)
(* Dates                                                                   *)
(***************************************************************************)

\* Date.UTC(year, monthIndex, day) for a calendar date with year >= 1000,
\* counted in days since 1970-01-01 (the JavaScript value is this number of
\* days times 86400000 ms; the code only compares two such midnights).
DateUTC(year, monthIndex, day) ==
  LET m   == monthIndex + 1
      y   == IF m <= 2 THEN year - 1 ELSE year
      era == y \div 400
      yoe == y - era * 400
      mp  == IF m > 2 THEN m - 3 ELSE m + 9
      doy == (153 * mp + 2) \div 5 + day - 1
      doe == yoe * 365 + yoe \div 4 - yoe \div 100 + doy
  IN  era * 146097 + doe - 719468

\* The UTC calendar fields of an instant, given its day number:
\* getUTCFullYear(), getUTCMonth() (0-based), getUTCDate().
UTCFields(dayNumber) ==
  LET z   == dayNumber + 719468
      era == z \div 146097
      doe == z - era * 146097
      yoe == (doe - doe \div 1460 + doe \div 36524 - doe \div 146096) \div 365
      doy == doe - (365 * yoe + yoe \div 4 - yoe \div 100)
      mp  == (5 * doy + 2) \div 153
      d   == doy - (153 * mp + 2) \div 5 + 1
      m   == IF mp < 10 THEN mp + 3 ELSE mp - 9
      y   == yoe + era * 400 + (IF m <= 2 THEN 1 ELSE 0)
  IN  [year |-> y, month |-> m - 1, date |-> d]

\* executeStatus with the comparison execUTC >= todayUTC.
executeStatus_NotStrict(parsed, clock) ==
  IF ~Falsy(parsed.execute_by)
    THEN LET yyyyMMdd == parsed.execute_by
             execUTC  == DateUTC(Number(SubSeq(yyyyMMdd, 1, 4)).n,
                                 Number(SubSeq(yyyyMMdd, 6, 7)).n - 1,
                                 Number(SubSeq(yyyyMMdd, 9, 10)).n)
             today    == UTCFields(clock.day)
             todayUTC == DateUTC(today.year, today.month, today.date)
         IN  IF execUTC >= todayUTC THEN "pending" ELSE "successful"
    ELSE "successful"

\* executeStatus of parseInstruction: "pending" iff execute_by is present and
\* execUTC > todayUTC.  `clock` is the instant new Date() returns.
executeStatus(parsed, clock) ==
  IF ~Falsy(parsed.execute_by)
    THEN LET yyyyMMdd == parsed.execute_by
             execUTC  == DateUTC(Number(SubSeq(yyyyMMdd, 1, 4)).n,
                                 Number(SubSeq(yyyyMMdd, 6, 7)).n - 1,
                                 Number(SubSeq(yyyyMMdd, 9, 10)).n)
             today    == UTCFields(clock.day)
             todayUTC == DateUTC(today.year, today.month, today.date)
         IN  IF execUTC > todayUTC THEN "pending" ELSE "successful"
    ELSE "successful"

(***************************************************************************)
(* Settlement and response                                                 *)
(***************************************************************************)

\* The initial value of `response`.
DefaultResponse ==
  [type |-> Null, amount |-> NullNum, currency |-> Null,
   debit_account |-> Null, credit_account |-> Null, execute_by |-> Null,
   status |-> "failed", status_reason |-> "FAILED_GENERIC",
   status_code |-> "PR01", accounts |-> <<>>]

\* The balance updates of an immediate execution, in the order the code
\* applies them: the amount is still the string of the instruction.
applyTransfer(accts, parsed, d, c) ==
  LET amt == Str(parsed.amount)
  IN  IF parsed.type = SUPPORTED_TYPE[debit]
        THEN LET a1 == [accts EXCEPT ![d].balance = Minus(@, amt)]
             IN  [a1 EXCEPT ![c].balance = Plus(@, amt)]
        ELSE LET a1 == [accts EXCEPT ![c].balance = Plus(@, amt)]
             IN  [a1 EXCEPT ![d].balance = Minus(@, amt)]

\* settle without the test of executeStatus: a pending instruction moves the
\* balances too.
settle_WhateverStatus(accts, parsed, d, c, status) ==
  applyTransfer(accts, parsed, d, c)

\* The accounts after the settlement step: balances move only when the
\* instruction executes now.
settle(accts, parsed, d, c, status) ==
  IF status = "successful" THEN applyTransfer(accts, parsed, d, c) ELSE accts

\* finalAccounts: the accounts whose id is one of the two ids, in input order.
finalAccounts(accts, parsed, debitBefore, creditBefore) ==
  LET kept == SelectSeq(accts, LAMBDA acc : acc.id = parsed.debit_account
                                            \/ acc.id = parsed.credit_account)
  IN  [i \in 1..Len(kept) |->
         [id             |-> kept[i].id,
          balance        |-> kept[i].balance,
          balance_before |-> IF kept[i].id = parsed.debit_account
                               THEN debitBefore ELSE creditBefore,
          currency       |-> toUpperCase(kept[i].currency)]]

\* The body of parseInstruction for an instruction that does not throw: the
\* accounts after the call and the response returned.
Evaluate(accts, instr, clock) ==
  LET parsed == parseInstructionData(trim(instr))
  IN  IF Falsy(parsed.type)
        THEN [accounts |-> accts,
              response |-> [DefaultResponse EXCEPT
                              !.status = "failed",
                              !.status_reason = "MALFORMED_INSTRUCTION",
                              !.status_code = "SY03"]]
      ELSE
        LET validationError == validateParsedFields(parsed, accts)
        IN  IF validationError # NoError
              THEN [accounts |-> accts,
                    response |-> [DefaultResponse EXCEPT
                                    !.status = "failed",
                                    !.status_reason = validationError.message,
                                    !.status_code = validationError.code]]
            ELSE
              LET d      == accountsMapGet(accts, parsed.debit_account)
                  c      == accountsMapGet(accts, parsed.credit_account)
                  status == executeStatus(parsed, clock)
                  after  == settle(accts, parsed, d, c, status)
              IN  [accounts |-> after,
                   response |->
                     [type           |-> parsed.type,
                      amount         |-> IF ~Falsy(parsed.amount)
                                           THEN Number(parsed.amount) ELSE NullNum,
                      currency       |-> parsed.currency,
                      debit_account  |-> parsed.debit_account,
                      credit_account |-> parsed.credit_account,
                      execute_by     |-> parsed.execute_by,
                      status         |-> status,
                      status_code    |-> IF status = "pending" THEN "AP02" ELSE "AP00",
                      status_reason  |-> IF status = "pending"
                                           THEN "TRANSACTION_PENDING"
                                           ELSE "TRANSACTION_SUCCESSFUL",
                      accounts       |-> finalAccounts(after, parsed,
                                                       accts[d].balance,
                                                       accts[c].balance)]]

(***************************************************************************)
(* Inputs                                                                  *)
(***************************************************************************)

\* Bounds of the model: the number of calls that may execute a transfer, and
\* the number of times the clock advances.
MaxExecuted == 1

MaxTicks == 1

\* tokens.join(' ')
RECURSIVE Join(_)
Join(tokens) ==
  IF Len(tokens) = 0 THEN <<>>
  ELSE IF Len(tokens) = 1 THEN tokens[1]
  ELSE tokens[1] \o <<" ">> \o Join(Tail(tokens))

x == <<"x">>

DEBIT == <<"D","E","B","I","T">>

CREDIT == <<"C","R","E","D","I","T">>

constructor == <<"c","o","n","s","t","r","u","c","t","o","r">>

TypeTokens ==
  { debit, <<"D","e","b","i","t">>, DEBIT, credit, CREDIT,
    <<"t","r","a","n","s","f","e","r">>,
    <<"C","o","n","s","t","r","u","c","t","o","r">> }

A30 == <<"3","0">>

Aabc == <<"a","b","c">>

RejectedAmounts == { <<"0">>, <<"-","5">>, <<"1","0",".","5">>, <<"-","1",".","5">> }

USD == <<"U","S","D">>

usd == <<"u","s","d">>

EUR == <<"E","U","R">>

A == <<"A">>

B == <<"B">>

C == <<"C">>

\* An id no account has.
Z == <<"Z">>

\* An id with a character outside `allowed`.
Bad == <<"a","#">>

Ids == { A, B, C, Z, Bad }

D0228 == <<"2","0","2","4","-","0","2","-","2","8">>

D0229 == <<"2","0","2","4","-","0","2","-","2","9">>

D0301 == <<"2","0","2","4","-","0","3","-","0","1">>

Dates == { D0228, D0229, D0301,
           <<"2","0","2","3","-","0","2","-","2","9">>,
           <<"2","0","2","4","/","0","2","/","2","9">> }

\* The token sequence of an instruction: the named fields at indices 0, 1, 2,
\* 5 and 10, then `rest` (empty, or a filler and execute_by at index 12).
Tokens(type, amount, currency, a5, a10, rest) ==
  <<type, amount, currency, x, x, a5, x, x, x, x, a10>> \o rest

Instr(type, amount, currency, a5, a10, rest) ==
  Join(Tokens(type, amount, currency, a5, a10, rest))

Instructions ==
  \* every type keyword with the amounts that pass, in both directions
  { Instr(t, a, USD, A, B, <<>>) : t \in TypeTokens, a \in {A30, Aabc} }
  \cup { Instr(t, a, USD, B, A, <<>>) : t \in TypeTokens, a \in {A30, Aabc} }
  \* amounts that fail
  \cup { Instr(credit, a, USD, A, B, <<>>) : a \in RejectedAmounts }
  \cup { Instr(DEBIT, a, EUR, A, A, <<>>) : a \in RejectedAmounts }
  \* account ids
  \cup { Instr(credit, A30, usd, a5, a10, <<>>) : a5 \in Ids, a10 \in Ids }
  \* currencies
  \cup { Instr(credit, A30, EUR, p[1], p[2], <<>>) :
           p \in { <<A, B>>, <<Bad, Bad>>, <<Z, A>>, <<A, A>>, <<A, C>> } }
  \cup { Instr(credit, A30, constructor, A, B, <<>>) }
  \* execute_by
  \cup { Instr(t, A30, USD, A, B, <<x, d>>) : t \in {debit, CREDIT}, d \in Dates }
  \* instructions cut short, the empty instruction included
  \cup { Join(SubSeq(Tokens(DEBIT, A30, USD, A, B, <<x, D0229>>), 1, k)) : k \in 0..12 }
  \* leading, doubled and trailing white space
  \cup { <<" ", "\t">> \o Join(<<credit, <<>>, A30, <<"\t","u","s","d">>, x, x, A, x, x, x, x, B>>)
           \o <<" ">> }

\* The accounts of a request, their ids all different.
DistinctAccounts ==
  << [id |-> A, balance |-> Num(100), currency |-> USD],
     [id |-> B, balance |-> Num(20),  currency |-> usd],
     [id |-> C, balance |-> Num(50),  currency |-> <<"G","B","P">>] >>

\* The accounts of a request in which one id is repeated.
RepeatedAccounts ==
  << [id |-> A, balance |-> Num(100), currency |-> USD],
     [id |-> B, balance |-> Num(20),  currency |-> USD],
     [id |-> A, balance |-> Num(7),   currency |-> USD] >>

\* The first instant of the clock: 2024-02-29T00:00:00Z.
ClockStart == [day |-> DateUTC(2024, 1, 29), ms |-> 0]

\* The number of times the clock has advanced by twelve hours.
Ticks(clock) == 2 * (clock.day - ClockStart.day) + (IF clock.ms = 0 THEN 0 ELSE 1)

(***************************************************************************)
(* State machine                                                           *)
(***************************************************************************)

VARIABLES
  accounts,     \* data.accounts: the account records, mutated in place
  now,          \* the instant new Date() returns: [day, ms within the day]
  instruction,  \* the instruction of the last call
  before,       \* the accounts as they were before the last call
  outcome,      \* of the last call: "none" | "returned" | "thrown"
  response,     \* the response the last call returned
  executed      \* the number of calls that ended "successful"

vars == <<accounts, now, instruction, before, outcome, response, executed>>

\* The state before the first call on the given accounts.
Start(accts) ==
  /\ accounts = accts
  /\ now = ClockStart
  /\ instruction = <<>>
  /\ before = accounts
  /\ outcome = "none"
  /\ response = DefaultResponse
  /\ executed = 0

Init == Start(DistinctAccounts)

\* One call of parseInstruction({accounts, instruction: instr}).
parseInstruction(instr) ==
  /\ instruction' = instr
  /\ before' = accounts
  /\ now' = now
  /\ IF parseInstructionDataThrows(trim(instr))
       THEN /\ outcome' = "thrown"
            /\ response' = DefaultResponse
            /\ accounts' = accounts
            /\ executed' = executed
       ELSE \E r \in {Evaluate(accounts, instr, now)} :
                /\ r.response.status = "successful" => executed < MaxExecuted
                /\ outcome' = "returned"
                /\ response' = r.response
                /\ accounts' = r.accounts
                /\ executed' = IF r.response.status = "successful"
                                 THEN executed + 1 ELSE executed

\* Time passes between two calls: the clock advances by twelve hours, and the
\* record of the last call is dropped (it was made at an earlier instant).
Tick ==
  /\ Ticks(now) < MaxTicks
  /\ now' = IF now.ms = 0 THEN [now EXCEPT !.ms = 43200000]
                          ELSE [day |-> now.day + 1, ms |-> 0]
  /\ instruction' = <<>>
  /\ before' = accounts
  /\ outcome' = "none"
  /\ response' = DefaultResponse
  /\ UNCHANGED <<accounts, executed>>

Next ==
  \/ \E instr \in Instructions : parseInstruction(instr)
  \/ Tick

Spec == Init /\ [][Next]_vars

\* The same calls on any accounts sequence, one with a repeated id included.
InitAnyAccounts == \E accts \in {DistinctAccounts, RepeatedAccounts} : Start(accts)

SpecAnyAccounts == InitAnyAccounts /\ [][Next]_vars

\* Strings offered as execute_by: every combination of the year, month and
\* day fields below, and strings that miss the format.
YearFields ==
  { <<"0","9","9","9">>, <<"1","0","0","0">>, <<"1","9","0","0">>, <<"2","0","0","0">>,
    <<"2","0","2","3">>, <<"2","0","2","4">>, <<"9","9","9","9">> }

MonthFields == { <<"0","0">>, <<"0","1">>, <<"0","2">>, <<"0","4">>, <<"1","2">>, <<"1","3">> }

DayFields == { <<"0","0">>, <<"2","8">>, <<"2","9">>, <<"3","0">>, <<"3","1">>, <<"3","2">> }

DateStrings ==
  { y \o <<"-">> \o m \o <<"-">> \o d : y \in YearFields, m \in MonthFields, d \in DayFields }
  \cup { <<"2","0","2","4","/","0","2","/","2","9">>,
         <<"2","0","2","4","-","0","2","/","2","9">>,
         <<"2","0","2","4","0","2","2","9">>,
         <<"2","0","2","4","-","2","-","2","9">>,
         <<"2","0","2","4","-","0","2","-","2","9","0">>,
         <<"2","0","2","4","-","0","2","-","0","2","9">>,
         <<"2","0","a","4","-","0","2","-","2","9">>,
         <<"2","0","2","4","-","0","b","-","2","9">>,
         <<"2","0","2","4","-","0","2","-","2",".">>,
         <<"2","4","-","0","2","-","2","9","-","-">>,
         <<"-","2","0","2","-","0","2","-","2","9">>,
         <<"2","9","-","0","2","-","2","0","2","4">> }

\* Calls whose instruction passes every check before the date check and
\* carries one of the strings above as execute_by.
NextDate ==
  \E ds \in DateStrings : parseInstruction(Instr(CREDIT, A30, USD, A, B, <<x, ds>>))

SpecDate == Init /\ [][NextDate]_vars

(***************************************************************************)
(* Properties                                                              *)
(***************************************************************************)

\* The last call returned a response.
Returned == outcome = "returned"

\* The tokens of the last instruction, and its named fields by position.
LastWords == Words(trim(instruction))

TypeToken == WordAt(LastWords, 0)

AmountToken == WordAt(LastWords, 1)

CurrencyToken == WordAt(LastWords, 2)

Token5 == WordAt(LastWords, 5)

Token10 == WordAt(LastWords, 10)

DateToken == WordAt(LastWords, 12)

\* The type keyword matches "credit" or "debit" case-insensitively.
Recognized == TypeToken # Null /\ toLowerCase(TypeToken) \in {credit, debit}

IsDebitKeyword == TypeToken # Null /\ toLowerCase(TypeToken) = debit

\* The id the instruction names as debit account.
DebitId == IF IsDebitKeyword THEN Token5 ELSE Token10

Accepted == response.status \in {"successful", "pending"}

IsNum(v) == v.t = "num"

\* A token that writes a positive integer in decimal digits.
PositiveInteger(tok) == tok # Null /\ tok # <<>> /\ AllDigits(tok) /\ DigitsVal(tok) > 0

\* C1: whenever a call ends "successful", the debit account's balance is its
\* balance before the call minus the amount and the credit account's balance
\* is its balance before plus the amount, as numbers.
C1_TransferArithmetic ==
  (Returned /\ response.status = "successful") =>
    LET d == accountsMapGet(before, response.debit_account)
        c == accountsMapGet(before, response.credit_account)
        amount == response.amount
    IN  /\ IsNum(amount)
        /\ IsNum(before[d].balance) /\ IsNum(before[c].balance) =>
             /\ accounts[d].balance = Num(before[d].balance.n - amount.n)
             /\ accounts[c].balance = Num(before[c].balance.n + amount.n)

\* C3: with a recognized type keyword, an amount token that is not a positive
\* integer ends "failed" with AM01, and every accepted response carries a
\* positive integer amount.
C3_AmountPositiveInteger ==
  (Returned /\ Recognized) =>
    /\ ~PositiveInteger(AmountToken) =>
         response.status = "failed" /\ response.status_code = "AM01"
    /\ Accepted => IsNum(response.amount) /\ response.amount.n > 0

\* C4: an instruction whose first token is not "credit" or "debit"
\* (case-insensitively), the empty instruction included, returns "failed"
\* with status_code PR01.
C4_UnrecognizedIsPR01 ==
  (outcome # "none" /\ ~Recognized) =>
    Returned /\ response.status = "failed" /\ response.status_code = "PR01"

\* The codes of the checks that come before the insufficient-funds check.
EarlierCodes == {"PR01", "SY03", "AM01", "CU02", "AC04", "AC03", "AC02", "CU01"}

\* C5: a debit instruction (keyword in any letter case) that passes the
\* earlier checks and whose debit account holds less than the amount fails
\* with AC01; it never executes with a debit balance below the amount.
C5_DebitInsufficientFunds ==
  (Returned /\ IsDebitKeyword /\ response.status_code \notin EarlierCodes) =>
    LET d == accountsMapGet(before, DebitId)
    IN  LessThan(before[d].balance, Number(AmountToken)) =>
          response.status = "failed" /\ response.status_code = "AC01"

\* The supported currency codes.
SupportedCodes == { USD, <<"N","G","N">>, <<"G","B","P">>, <<"G","H","S">> }

BeforeIds == { before[i].id : i \in 1..Len(before) }

\* The currency of the account the lookup finds for an id.
CurrencyOf(id) == toUpperCase(before[accountsMapGet(before, id)].currency)

\* The code the chain is to emit among CU02, AC04, AC03, AC02, CU01: that of
\* the first condition that holds, "" when none does.
ExpectedAccountCode ==
  IF CurrencyToken = Null \/ toUpperCase(CurrencyToken) \notin SupportedCodes THEN "CU02"
  ELSE IF ~isValidAccountId(Token5) /\ ~isValidAccountId(Token10) THEN "AC04"
  ELSE IF Token5 \notin BeforeIds \/ Token10 \notin BeforeIds THEN "AC03"
  ELSE IF Token5 = Token10 THEN "AC02"
  ELSE IF CurrencyOf(Token5) # CurrencyOf(Token10) THEN "CU01"
  ELSE ""

\* C6: with a recognized type and an accepted amount, the status_code is that
\* of the first failing check in the order CU02, AC04, AC03, AC02, CU01.
C6_FirstFailingCheck ==
  (Returned /\ Recognized /\ response.status_code \notin {"PR01", "SY03", "AM01"}) =>
    IF ExpectedAccountCode # ""
      THEN response.status = "failed" /\ response.status_code = ExpectedAccountCode
      ELSE response.status_code \notin {"CU02", "AC04", "AC03", "AC02", "CU01"}

\* C8: an accepted response lists exactly two accounts, the debit and the
\* credit account in input order, each with its balance before and after the
\* call; for every accounts sequence, repeated ids included.
C8_TwoAccountEntries ==
  (Returned /\ Accepted) =>
    LET d  == accountsMapGet(before, response.debit_account)
        c  == accountsMapGet(before, response.credit_account)
        lo == IF d < c THEN d ELSE c
        hi == IF d < c THEN c ELSE d
        entry(i) == [id |-> before[i].id, balance |-> accounts[i].balance,
                     balance_before |-> before[i].balance,
                     currency |-> toUpperCase(before[i].currency)]
    IN  /\ response.accounts = <<entry(lo), entry(hi)>>
        /\ response.status = "pending" =>
             \A i \in 1..Len(response.accounts) :
               response.accounts[i].balance = response.accounts[i].balance_before

\* C9: an accepted response carries the normalized type "CREDIT" or "DEBIT"
\* and the upper-case currency code, whatever the letter case of the tokens.
C9_NormalizedTypeAndCurrency ==
  (Returned /\ Accepted) =>
    /\ response.type \in {CREDIT, DEBIT}
    /\ response.type = toUpperCase(TypeToken)
    /\ response.currency = toUpperCase(CurrencyToken)

\* C2: a call that ends "failed" or "pending" (or throws) leaves every
\* account as it was; a call that ends "successful" changes only balances,
\* and only of accounts whose id the instruction names.
C2_BalancesFrame ==
  (outcome # "none") =>
    /\ Len(accounts) = Len(before)
    /\ (outcome = "thrown" \/ response.status \in {"failed", "pending"}) =>
         accounts = before
    /\ (Returned /\ response.status = "successful") =>
         \A i \in 1..Len(before) :
           /\ accounts[i].id = before[i].id
           /\ accounts[i].currency = before[i].currency
           /\ accounts[i].balance # before[i].balance =>
                before[i].id \in {Token5, Token10}

\* A pending call made on accounts an earlier call has already changed.
C2_Witness ==
  /\ Returned
  /\ response.status = "pending"
  /\ executed = 1
  /\ accounts = before
  /\ accounts # DistinctAccounts /\ accounts # RepeatedAccounts

\* The UTC calendar date <<year, month, day>> of the clock, counted from the
\* clock's first day, 2024-02-29.
Today ==
  LET k == now.day - ClockStart.day
  IN  CASE k = 0 -> <<2024, 2, 29>>
        [] k = 1 -> <<2024, 3, 1>>
        [] k = 2 -> <<2024, 3, 2>>
        [] k = 3 -> <<2024, 3, 3>>

\* The calendar date a YYYY-MM-DD string writes is later than `date`.
DateLater(str, date) ==
  LET y == DigitsVal(SubSeq(str, 1, 4))
      m == DigitsVal(SubSeq(str, 6, 7))
      d == DigitsVal(SubSeq(str, 9, 10))
  IN  \/ y > date[1]
      \/ y = date[1] /\ m > date[2]
      \/ y = date[1] /\ m = date[2] /\ d > date[3]

\* C7: an instruction that passes validation is "pending" with AP02 exactly
\* when execute_by is present and its date is strictly later than the current
\* UTC date, and "successful" with AP00 otherwise.
C7_PendingIffFuture ==
  (Returned /\ Accepted) =>
    IF DateToken # Null /\ DateLater(DateToken, Today)
      THEN response.status = "pending" /\ response.status_code = "AP02"
      ELSE response.status = "successful" /\ response.status_code = "AP00"

\* An execute_by of today's date executed at noon.
C7_Witness ==
  /\ Returned
  /\ response.status = "successful"
  /\ DateToken = D0229
  /\ Today = <<2024, 2, 29>>
  /\ now.ms # 0

\* The number of days of a month of a year.
DaysOfMonth(year, month) ==
  CASE month \in {1, 3, 5, 7, 8, 10, 12} -> 31
    [] month \in {4, 6, 9, 11} -> 30
    [] month = 2 -> IF (year % 4 = 0 /\ year % 100 # 0) \/ year % 400 = 0
                      THEN 29 ELSE 28
    [] OTHER -> 0

\* A string of the form DDDD-DD-DD that writes a date of the calendar with a
\* year in 1000..9999.
CalendarDate(str) ==
  /\ str # Null
  /\ Len(str) = 10
  /\ \A i \in 1..10 : IF i \in {5, 8} THEN str[i] = "-" ELSE str[i] \in DigitSet
  /\ LET y == DigitsVal(SubSeq(str, 1, 4))
         m == DigitsVal(SubSeq(str, 6, 7))
         d == DigitsVal(SubSeq(str, 9, 10))
     IN  y \in 1000..9999 /\ m \in 1..12 /\ d \in 1..DaysOfMonth(y, m)

D1900 == <<"1","9","0","0","-","0","2","-","2","9">>

\* C10: isValidDateYYYYMMDD accepts exactly the calendar dates written
\* YYYY-MM-DD with a year in 1000..9999 (February 29 in leap years only), and
\* an instruction that passes the earlier checks fails with DT01 exactly when
\* its execute_by is rejected.
C10_DateValidator ==
  (outcome # "none" /\ DateToken # Null) =>
    /\ isValidDateYYYYMMDD(DateToken) <=> CalendarDate(DateToken)
    /\ (Returned /\ response.status_code \notin (EarlierCodes \cup {"AC01"})) =>
         ((response.status = "failed" /\ response.status_code = "DT01")
            <=> ~CalendarDate(DateToken))

\* February 29 of 1900, which is no leap year, offered and rejected.
C10_Witness ==
  /\ Returned
  /\ DateToken = D1900
  /\ response.status = "failed"
  /\ response.status_code = "DT01"

====
